---- MODULE Spec2Model ----
(***************************************************************************)
(* Model of the 3x3x3 cube simulator of pll_recognition:                   *)
(*   cube/common.py  (Move, _reverse_move, reverse_moves)                  *)
(*   cube/cubie.py   (Cubie)                                               *)
(*   cube/cube.py    (Cube)                                                *)
(*   routers/cube.py (get_plot, get_pll_plot)                              *)
(*   routers/training.py (generate_training_question)                      *)
(* A Python str is modelled as a sequence of one-character strings, a dict *)
(* as a function whose domain is its key set, a list as a sequence.        *)
(***************************************************************************)
EXTENDS Integers, Sequences, FiniteSets, TLC

VARIABLES
    cubies,   \* Cube.cubies of the cube being operated on
    start,    \* the piece collection the cube held before the first rotate call
              \* (SpecCubie: the constructor's arguments, the piece before the turn)
    moves,    \* the move string handed to Cube.rotate
    n,        \* number of rotate calls made on the cube so far
    err,      \* exception raised by the last call ("none" when it returned)
    op,       \* the last operation performed
    cubes,    \* SpecRequests: the piece lists of the Cube objects the handlers built
    requests, \* the requests being served, each with its handler's locals
    figures,  \* pyplot's registry of open figures, the current figure last
    db        \* the tables training_sessions and training_attempts

vars == <<cubies, start, moves, n, err, op, cubes, requests, figures, db>>

----------------------------------------------------------------------------
(* cube/constants.py *)

FACES == <<"U", "R", "F", "D", "L", "B">>

FaceSet == {FACES[i] : i \in 1..Len(FACES)}

FACE_COLOR == [U |-> "white", D |-> "yellow", F |-> "green",
               R |-> "red", B |-> "blue", L |-> "orange"]

\* Every face taken for its own opposite
OPPOSITE_FACE_same == [U |-> "U", D |-> "D", F |-> "F", B |-> "B", R |-> "R", L |-> "L"]

OPPOSITE_FACE == [U |-> "D", D |-> "U", F |-> "B", B |-> "F", R |-> "L", L |-> "R"]

\* The poles of M and E exchanged
MIDDLE_LAYER_AXIS_swapped == [M |-> {"U", "D"}, E |-> {"R", "L"}, S |-> {"F", "B"}]

MIDDLE_LAYER_AXIS == [M |-> {"R", "L"}, E |-> {"U", "D"}, S |-> {"F", "B"}]

FACE_COORD == [U |-> <<0, 0, 1>>, D |-> <<0, 0, -1>>,
               F |-> <<1, 0, 0>>, B |-> <<-1, 0, 0>>,
               R |-> <<0, 1, 0>>, L |-> <<0, -1, 0>>]

----------------------------------------------------------------------------
(* Python str helpers *)

\* str.upper() on one character, for the letters the inputs are built from;
\* digits, quotes and blanks are their own upper case.
UpperCase == [u |-> "U", d |-> "D", l |-> "L", r |-> "R", f |-> "F", b |-> "B",
              m |-> "M", e |-> "E", s |-> "S", x |-> "X", y |-> "Y", z |-> "Z",
              q |-> "Q"]

Upper(c) == IF c \in DOMAIN UpperCase THEN UpperCase[c] ELSE c

\* str.endswith(suffix)
EndsWith(s, suffix) ==
    /\ Len(s) >= Len(suffix)
    /\ \A i \in 1..Len(suffix) : s[Len(s) - Len(suffix) + i] = suffix[i]

\* c in "....": membership of one character in a string literal
CharIn(c, s) == \E i \in 1..Len(s) : s[i] = c

\* str.split(): the maximal runs of non-blank characters, in order
RECURSIVE SplitFrom(_, _, _)
SplitFrom(s, i, cur) ==
    IF i > Len(s)
    THEN IF cur = <<>> THEN <<>> ELSE <<cur>>
    ELSE IF s[i] = " "
         THEN IF cur = <<>> THEN SplitFrom(s, i + 1, <<>>)
              ELSE <<cur>> \o SplitFrom(s, i + 1, <<>>)
         ELSE SplitFrom(s, i + 1, Append(cur, s[i]))

\* No splitting: a string that is not empty is taken for one token
Split_whole(s) == IF s = <<>> THEN <<>> ELSE <<s>>

Split(s) == SplitFrom(s, 1, <<>>)

\* " ".join(tokens)
RECURSIVE Join(_)
Join(toks) ==
    IF toks = <<>> THEN <<>>
    ELSE IF Len(toks) = 1 THEN toks[1]
    ELSE toks[1] \o <<" ">> \o Join(Tail(toks))

\* list[::-1]
Reversed(l) == [i \in 1..Len(l) |-> l[Len(l) + 1 - i]]

----------------------------------------------------------------------------
(* cube/common.py : Move *)

\* The cycle of the R group written backwards
base_rotation_backwards == [RLXM |-> <<"U", "F", "D", "B">>,
                            UDYE |-> <<"F", "L", "B", "R">>,
                            FBZS |-> <<"U", "R", "D", "L">>]

\* The cycle of the R group written in a wrong order
base_rotation_misordered == [RLXM |-> <<"U", "D", "B", "F">>,
                             UDYE |-> <<"F", "L", "B", "R">>,
                             FBZS |-> <<"U", "R", "D", "L">>]

base_rotation == [RLXM |-> <<"U", "B", "D", "F">>,
                  UDYE |-> <<"F", "L", "B", "R">>,
                  FBZS |-> <<"U", "R", "D", "L">>]

\* The half-turn suffix overlooked
Direction_nohalf(move) ==
    IF EndsWith(move, <<"'">>) THEN -1 ELSE 1

\* The prime overlooked
Direction_noprime(move) ==
    IF EndsWith(move, <<"2">>) \/ EndsWith(move, <<"2", "'">>) THEN 2 ELSE 1

\* Move.__init__: self.direction
Direction(move) ==
    IF EndsWith(move, <<"2">>) \/ EndsWith(move, <<"2", "'">>) THEN 2
    ELSE IF EndsWith(move, <<"'">>) THEN -1
    ELSE 1

\* Move.__init__: self.move_type. The test is membership of the first
\* character in the one-element list ["xyz"].
move_type(move) ==
    IF <<move[1]>> \in {<<"x", "y", "z">>} THEN "coordinate_rotation"
    ELSE "face_rotation"

\* rotation_loop binds base_rot only in one of its three branches
BaseRotBound(move) ==
    \/ CharIn(Upper(move[1]), <<"U", "D", "Y", "E">>)
    \/ CharIn(Upper(move[1]), <<"R", "L", "X", "M">>)
    \/ CharIn(Upper(move[1]), <<"F", "B", "Z", "S">>)

\* M looked up in the group of U and E in the group of R
BaseRot_slices(move) ==
    IF CharIn(Upper(move[1]), <<"U", "D", "Y", "M">>) THEN base_rotation["UDYE"]
    ELSE IF CharIn(Upper(move[1]), <<"R", "L", "X", "E">>) THEN base_rotation["RLXM"]
    ELSE base_rotation["FBZS"]

BaseRot(move) ==
    IF CharIn(Upper(move[1]), <<"U", "D", "Y", "E">>) THEN base_rotation["UDYE"]
    ELSE IF CharIn(Upper(move[1]), <<"R", "L", "X", "M">>) THEN base_rotation["RLXM"]
    ELSE base_rotation["FBZS"]

\* The slices left out of the chirality test
Forward_outer(move) ==
    CharIn(Upper(move[1]), <<"U", "R", "F", "X", "Y", "Z">>)

\* The leading character compared as written, its case kept
Forward_cased(move) ==
    CharIn(move[1], <<"U", "R", "F", "X", "Y", "Z", "M", "E", "S">>)

\* The chirality test of rotation_loop
Forward(move) ==
    CharIn(Upper(move[1]), <<"U", "R", "F", "X", "Y", "Z", "M", "E", "S">>)

\* Move.rotation_loop: the dict {face: face} over the four faces of base_rot.
\* (Python's % yields a result in 0..3, as TLA+'s does.)
rotation_loop(move) ==
    LET base_rot == BaseRot(move)
        d == Direction(move)
    IN  [f \in {base_rot[i] : i \in 1..4} |->
            LET i == CHOOSE j \in 1..4 : base_rot[j] = f
            IN  IF Forward(move)
                THEN base_rot[((i - 1 + d) % 4) + 1]
                ELSE base_rot[((i - 1 - d) % 4) + 1]]

----------------------------------------------------------------------------
(* cube/cubie.py : Cubie *)

CubieTypes == {"Corner", "Edge", "Center"}

\* A raised exception, in the place of the value the call would have returned
Raise(e) == [error |-> e]

IsError(x) == "error" \in DOMAIN x

\* Cubie.faces
Faces(colors) == DOMAIN colors

\* Cubie.position: the component-wise sum of FACE_COORD over the faces. With no
\* face np.sum gives the scalar 0.0, which has no length.
Position(colors) ==
    IF Faces(colors) = {} THEN 0
    ELSE [k \in 1..3 |->
            Cardinality({f \in Faces(colors) : FACE_COORD[f][k] = 1})
          - Cardinality({f \in Faces(colors) : FACE_COORD[f][k] = -1})]

\* A center allowed two stickers
expected_colors_lenient == [Corner |-> 3, Edge |-> 2, Center |-> 2]

expected_colors == [Corner |-> 3, Edge |-> 2, Center |-> 1]

\* Cubie(cubie_type, colors) with the validation of __post_init__
Cubie(cubie_type, colors) ==
    LET position == Position(colors)
    IN  IF Faces(colors) = {}
        THEN Raise("TypeError")       \* len() of the scalar
        ELSE IF Len(position) # 3
        THEN Raise("ValueError")
        ELSE IF \E k \in 1..3 : position[k] \notin {-1, 0, 1}
        THEN Raise("ValueError")
        ELSE IF Cardinality(DOMAIN colors) # expected_colors[cubie_type]
        THEN Raise("ValueError")
        ELSE [cubie_type |-> cubie_type, colors |-> colors]

\* No early return: every move turns every piece
Unaffected_never(c, move) == FALSE

\* The three early returns of Cubie.rotate: the piece is left as it is
Unaffected(c, move) ==
    \/ /\ CharIn(move[1], <<"U", "D", "R", "L", "B", "F">>)
       /\ move[1] \notin Faces(c.colors)
    \/ /\ CharIn(move[1], <<"u", "d", "r", "l", "b", "f">>)
       /\ OPPOSITE_FACE[Upper(move[1])] \in Faces(c.colors)
    \/ /\ CharIn(move[1], <<"M", "E", "S">>)
       /\ MIDDLE_LAYER_AXIS[move[1]] \cap Faces(c.colors) # {}

\* The else branch of the loop left out: a sticker on a face outside the loop
\* is dropped
NewColors_dropped(colors, loop) ==
    [f \in {loop[key] : key \in DOMAIN colors \cap DOMAIN loop} |->
        colors[CHOOSE key \in DOMAIN colors \cap DOMAIN loop : loop[key] = f]]

\* The sticker given the colour of the face it lands on
NewColors_repainted(colors, loop) ==
    LET target(key) == IF key \in DOMAIN loop THEN loop[key] ELSE key
    IN  [f \in {target(key) : key \in DOMAIN colors} |->
            IF f \in DOMAIN colors THEN colors[f] ELSE FACE_COLOR[f]]

\* The dict built by the loop of Cubie.rotate. Two keys sent to one face would
\* leave one entry (the later assignment wins); Cubie() then rejects the dict
\* for its size, so which value survives is never observed.
NewColors(colors, loop) ==
    LET target(key) == IF key \in DOMAIN loop THEN loop[key] ELSE key
    IN  [f \in {target(key) : key \in DOMAIN colors} |->
            colors[CHOOSE key \in DOMAIN colors : target(key) = f]]

\* Cubie.rotate
CubieRotate(c, move) ==
    IF Unaffected(c, move) THEN c
    ELSE IF ~BaseRotBound(move) THEN Raise("UnboundLocalError")
    ELSE Cubie(c.cubie_type, NewColors(c.colors, rotation_loop(move)))

----------------------------------------------------------------------------
(* cube/cube.py : Cube *)

centers_info == <<[U |-> "white"], [D |-> "yellow"], [F |-> "green"],
                  [B |-> "blue"], [R |-> "red"], [L |-> "orange"]>>

\* The R-F edge listed twice, the L-F edge left out
edges_info_repeated == <<
    [R |-> "red", F |-> "green"],
    [R |-> "red", F |-> "green"],
    [L |-> "orange", B |-> "blue"],
    [R |-> "red", B |-> "blue"],
    [U |-> "white", F |-> "green"],
    [D |-> "yellow", F |-> "green"],
    [D |-> "yellow", B |-> "blue"],
    [U |-> "white", B |-> "blue"],
    [U |-> "white", R |-> "red"],
    [U |-> "white", L |-> "orange"],
    [D |-> "yellow", L |-> "orange"],
    [D |-> "yellow", R |-> "red"]>>

edges_info == <<
    [R |-> "red", F |-> "green"],
    [L |-> "orange", F |-> "green"],
    [L |-> "orange", B |-> "blue"],
    [R |-> "red", B |-> "blue"],
    [U |-> "white", F |-> "green"],
    [D |-> "yellow", F |-> "green"],
    [D |-> "yellow", B |-> "blue"],
    [U |-> "white", B |-> "blue"],
    [U |-> "white", R |-> "red"],
    [U |-> "white", L |-> "orange"],
    [D |-> "yellow", L |-> "orange"],
    [D |-> "yellow", R |-> "red"]>>

corners_info == <<
    [U |-> "white", R |-> "red", F |-> "green"],
    [U |-> "white", L |-> "orange", F |-> "green"],
    [U |-> "white", L |-> "orange", B |-> "blue"],
    [U |-> "white", R |-> "red", B |-> "blue"],
    [D |-> "yellow", R |-> "red", F |-> "green"],
    [D |-> "yellow", L |-> "orange", F |-> "green"],
    [D |-> "yellow", L |-> "orange", B |-> "blue"],
    [D |-> "yellow", R |-> "red", B |-> "blue"]>>

\* Cube._create_solved_cube: centers, then edges, then corners
create_solved_cube ==
       [i \in 1..Len(centers_info) |-> Cubie("Center", centers_info[i])]
    \o [i \in 1..Len(edges_info) |-> Cubie("Edge", edges_info[i])]
    \o [i \in 1..Len(corners_info) |-> Cubie("Corner", corners_info[i])]

\* The list comprehension [cubie.rotate(move) for cubie in self.cubies], built
\* piece by piece from the k-th on; the first exception ends it
RECURSIVE RotateFrom(_, _, _, _)
RotateFrom(cs, move, k, done) ==
    IF k > Len(cs) THEN [cubies |-> done, err |-> "none"]
    ELSE LET c == CubieRotate(cs[k], move)
         IN  IF IsError(c) THEN [cubies |-> cs, err |-> c.error]
             ELSE RotateFrom(cs, move, k + 1, Append(done, c))

\* The comprehension started at the second piece
RotateOne_skipfirst(cs, move) == RotateFrom(cs, move, 2, <<>>)

\* One pass of the loop of Cube.rotate. An exception in the comprehension
\* leaves self.cubies as the previous token left it.
RotateOne(cs, move) == RotateFrom(cs, move, 1, <<>>)

RECURSIVE RotateTokens(_, _, _)
RotateTokens(cs, toks, i) ==
    IF i > Len(toks) THEN [cubies |-> cs, err |-> "none"]
    ELSE LET r == RotateOne(cs, toks[i])
         IN  IF r.err # "none" THEN r
             ELSE RotateTokens(r.cubies, toks, i + 1)

\* Cube.rotate(moves): the cubies it leaves and the exception it raises
CubeRotate(cs, s) == RotateTokens(cs, Split(s), 1)

----------------------------------------------------------------------------
(* cube/common.py : the sequence inverter *)

\* The half-turn test left out: a half turn gains or loses a prime like any token
_reverse_move_nohalf(move) ==
    IF EndsWith(move, <<"'">>) THEN <<move[1]>>
    ELSE <<move[1], "'">>

_reverse_move(move) ==
    IF EndsWith(move, <<"2">>) \/ EndsWith(move, <<"2", "'">>) THEN move
    ELSE IF EndsWith(move, <<"'">>) THEN <<move[1]>>
    ELSE <<move[1], "'">>

\* The [::-1] left out: the tokens inverted, their order kept
reverse_moves_unreversed(s) ==
    LET toks == Split(s)
    IN  Join([i \in 1..Len(toks) |-> _reverse_move(toks[i])])

reverse_moves(s) ==
    LET toks == Split(s)
    IN  Join(Reversed([i \in 1..Len(toks) |-> _reverse_move(toks[i])]))

----------------------------------------------------------------------------
(* Inputs *)

\* Longest generated move string, in tokens (the named algorithms are longer)
MaxLen == 2

\* Most repetitions of one move string in SpecRepeat
MaxReps == 6

\* The identifying characters of the move notation
MoveIds == {"U", "D", "L", "R", "F", "B", "u", "d", "l", "r", "f", "b",
            "M", "E", "S", "X", "Y", "Z"}

\* The whole-cube rotations as routers/cube.py and routers/training.py write them
LowerRotationIds == {"x", "y", "z"}

Suffixes == {<<>>, <<"'">>, <<"2">>, <<"2", "'">>}

ValidTokens == {<<id>> \o suf : id \in MoveIds \cup LowerRotationIds, suf \in Suffixes}

\* Tokens outside the notation: an unknown identifier, a lowercase slice, a
\* known identifier with a suffix that is neither 2 nor '
InvalidTokens == {<<"Q">>, <<"q", "2">>, <<"3">>, <<"'">>,
                  <<"m">>, <<"e", "'">>, <<"s", "2">>,
                  <<"R", "3">>, <<"U", "q">>, <<"F", "'", "'">>, <<"M", "2", "2">>}

Tokens == ValidTokens \cup InvalidTokens

\* The tokens the generated multi-token strings are composed of: outer turns
\* on the three axes, a slice, a wide turn and a whole-cube rotation, in the
\* three directions
CoreTokens == {<<"R">>, <<"U", "'">>, <<"F", "2">>, <<"L">>, <<"D", "'">>,
               <<"M">>, <<"r">>, <<"y">>}

\* Move strings with a token outside the notation among valid ones
MalformedInputs == {
    Join(<< <<"R">>, <<"Q">>, <<"U">> >>),
    Join(<< <<"R", "3">>, <<"U">> >>),
    Join(<< <<"U">>, <<"m">> >>)
}

IsValidToken(t) == t \in ValidTokens

\* Every token of the string is a token of the notation
ValidMoves(s) == \A i \in 1..Len(Split(s)) : IsValidToken(Split(s)[i])

\* Named algorithms, as a name -> move string lookup would supply them
SexyMove == <<"R", " ", "U", " ", "R", "'", " ", "U", "'">>

Algorithms == {
    SexyMove,
    \* T: R U R' U' R' F R2 U' R' U' R U R' F'
    Join(<< <<"R">>, <<"U">>, <<"R", "'">>, <<"U", "'">>, <<"R", "'">>, <<"F">>,
            <<"R", "2">>, <<"U", "'">>, <<"R", "'">>, <<"U", "'">>, <<"R">>,
            <<"U">>, <<"R", "'">>, <<"F", "'">> >>),
    \* Ua: M2 U M U2 M' U M2
    Join(<< <<"M", "2">>, <<"U">>, <<"M">>, <<"U", "2">>, <<"M", "'">>, <<"U">>,
            <<"M", "2">> >>),
    \* Aa: x R' U R' D2 R U' R' D2 R2 x'
    Join(<< <<"x">>, <<"R", "'">>, <<"U">>, <<"R", "'">>, <<"D", "2">>, <<"R">>,
            <<"U", "'">>, <<"R", "'">>, <<"D", "2">>, <<"R", "2">>, <<"x", "'">> >>),
    \* E S' r l2' y Z
    Join(<< <<"E">>, <<"S", "'">>, <<"r">>, <<"l", "2", "'">>, <<"y">>, <<"Z">> >>)
}

\* The token lists of length 2..k over CoreTokens
RECURSIVE TokenLists(_)
TokenLists(k) ==
    IF k < 2 THEN {}
    ELSE IF k = 2 THEN {<<a, b>> : a, b \in CoreTokens}
    ELSE LET shorter == TokenLists(k - 1)
         IN  shorter \cup {Append(l, t) : l \in {x \in shorter : Len(x) = k - 1},
                                          t \in CoreTokens}

\* The move strings a rotate call is given: the empty and the blank string,
\* every single token, the compositions of core tokens, the named algorithms
SeqInputs ==
    {<<>>, <<" ">>} \cup Tokens \cup {Join(l) : l \in TokenLists(MaxLen)}
        \cup Algorithms \cup MalformedInputs

\* The algorithms a name -> move string lookup supplies to get_pll_plot
PllInputs == Tokens \cup Algorithms \cup MalformedInputs

\* The move strings that are applied repeatedly
RepInputs == ValidTokens \cup Algorithms

\* Move strings that bring a solved cube to a scrambled state
Scrambles == {
    Join(<< <<"R">>, <<"U", "'">>, <<"F", "2">>, <<"M">>, <<"u">>, <<"S", "'">>,
            <<"x">>, <<"L">>, <<"E", "2">>, <<"f", "'">>, <<"D", "'">>, <<"B">>,
            <<"Y">> >>)
}

----------------------------------------------------------------------------
(* Spec: a cube is built, possibly scrambled, turned by a move string and  *)
(* turned back by reverse_moves of it; get_pll_plot builds the case that a *)
(* named algorithm solves.                                                 *)

Init ==
    /\ cubies = create_solved_cube
    /\ start = create_solved_cube
    /\ moves = <<>>
    /\ n = 0
    /\ err = "none"
    /\ op = "Cube"
    /\ cubes = <<>>
    /\ requests = <<>>
    /\ figures = <<>>
    /\ db = <<>>

\* cube.rotate(s) on the cube Cube() built, for a scramble s
Scramble(s) ==
    /\ op = "Cube"
    /\ \E r \in {CubeRotate(cubies, s)} :
           /\ cubies' = r.cubies
           /\ start' = r.cubies
           /\ err' = r.err
    /\ op' = "scramble"
    /\ UNCHANGED <<moves, n, cubes, requests, figures, db>>

\* cube.rotate(s)
Rotate(s) ==
    /\ op \in {"Cube", "scramble"}
    /\ \E r \in {CubeRotate(cubies, s)} :
           /\ cubies' = r.cubies
           /\ err' = r.err
    /\ moves' = s
    /\ n' = 1
    /\ op' = "rotate"
    /\ UNCHANGED <<start, cubes, requests, figures, db>>

\* cube.rotate(reverse_moves(s)) after cube.rotate(s) returned
RotateReversed ==
    /\ op = "rotate"
    /\ err = "none"
    /\ \E r \in {CubeRotate(cubies, reverse_moves(moves))} :
           /\ cubies' = r.cubies
           /\ err' = r.err
    /\ n' = n + 1
    /\ op' = "reverse"
    /\ UNCHANGED <<start, moves, cubes, requests, figures, db>>

\* get_pll_plot for a name whose algorithm is algorithm: Cube(), rotate("x2"),
\* rotate(reverse_moves(algorithm)). start keeps the x2-rotated solved cube.
GetPllPlot(algorithm) ==
    /\ op = "Cube"
    /\ \E r1 \in {CubeRotate(create_solved_cube, <<"x", "2">>)} :
         \E r2 \in {CubeRotate(r1.cubies, reverse_moves(algorithm))} :
           /\ start' = r1.cubies
           /\ cubies' = r2.cubies
           /\ err' = r2.err
    /\ moves' = algorithm
    /\ n' = 2
    /\ op' = "get_pll_plot"
    /\ UNCHANGED <<cubes, requests, figures, db>>

\* The algorithm itself, executed on the case get_pll_plot drew
RotateAlgorithm ==
    /\ op = "get_pll_plot"
    /\ err = "none"
    /\ \E r \in {CubeRotate(cubies, moves)} :
           /\ cubies' = r.cubies
           /\ err' = r.err
    /\ n' = n + 1
    /\ op' = "algorithm"
    /\ UNCHANGED <<start, moves, cubes, requests, figures, db>>

Next ==
    \/ \E s \in Scrambles : Scramble(s)
    \/ \E s \in SeqInputs : Rotate(s)
    \/ RotateReversed
    \/ \E algorithm \in PllInputs : GetPllPlot(algorithm)
    \/ RotateAlgorithm

Spec == Init /\ [][Next]_vars

----------------------------------------------------------------------------
(* SpecRepeat: one move string applied again and again to a cube *)

\* The cubes a repetition starts from
Starts ==
    {create_solved_cube} \cup {CubeRotate(create_solved_cube, s).cubies : s \in Scrambles}

InitRepeat ==
    /\ start \in Starts
    /\ cubies = start
    /\ moves \in RepInputs
    /\ n = 0
    /\ err = "none"
    /\ op = "Cube"
    /\ cubes = <<>>
    /\ requests = <<>>
    /\ figures = <<>>
    /\ db = <<>>

\* cube.rotate(moves), once more
RotateAgain ==
    /\ n < MaxReps
    /\ err = "none"
    /\ \E r \in {CubeRotate(cubies, moves)} :
           /\ cubies' = r.cubies
           /\ err' = r.err
    /\ n' = n + 1
    /\ op' = "rotate"
    /\ UNCHANGED <<start, moves, cubes, requests, figures, db>>

NextRepeat == RotateAgain

SpecRepeat == InitRepeat /\ [][NextRepeat]_vars

----------------------------------------------------------------------------
(* Properties *)

\* The state get_pll_plot starts the reversed algorithm from
X2Solved == CubeRotate(create_solved_cube, <<"x", "2">>).cubies

\* C1: inverse law. Once rotate(S) and then rotate(reverse_moves(S)) have run
\* on a cube, S made of valid tokens, neither call raised and the cube holds,
\* piece by piece, what it held before rotate(S); and the algorithm itself,
\* run on the case get_pll_plot built (solved, x2, reversed algorithm), leaves
\* the x2-rotated solved cube.
InverseLaw ==
    /\ (op = "reverse" /\ ValidMoves(moves)) => (err = "none" /\ cubies = start)
    /\ (op = "algorithm" /\ ValidMoves(moves)) =>
           (err = "none" /\ start = X2Solved /\ cubies = X2Solved)

\* A scrambled cube turned by a valid algorithm of several tokens and back
InverseLawWitness ==
    /\ op = "reverse"
    /\ ValidMoves(moves)
    /\ Len(Split(moves)) >= 2
    /\ start # create_solved_cube
    /\ cubies = start

----------------------------------------------------------------------------
(* The sticker movement of standard notation, from the geometry of FACE_COORD *)

Dot(a, b) == a[1] * b[1] + a[2] * b[2] + a[3] * b[3]

Cross(a, b) == <<a[2] * b[3] - a[3] * b[2],
                 a[3] * b[1] - a[1] * b[3],
                 a[1] * b[2] - a[2] * b[1]>>

FaceAt(v) == CHOOSE f \in FaceSet : FACE_COORD[f] = v

\* The face whose clockwise sense a token's identifier turns in
TurnFace == [U |-> "U", D |-> "D", L |-> "L", R |-> "R", F |-> "F", B |-> "B",
             M |-> "L", E |-> "D", S |-> "F", X |-> "R", Y |-> "U", Z |-> "F"]

\* A quarter turn clockwise as seen from face a carries the face f to this face
Clockwise(a, f) ==
    LET av == FACE_COORD[a]
        fv == FACE_COORD[f]
        c == Cross(fv, av)
        d == Dot(av, fv)
    IN  FaceAt(<<d * av[1] + c[1], d * av[2] + c[2], d * av[3] + c[3]>>)

\* The number of clockwise quarter turns a token's suffix asks for
Quarters(move) ==
    IF Len(move) = 1 THEN 1
    ELSE IF move[2] = "2" THEN 2
    ELSE 3

RECURSIVE Turned(_, _, _)
Turned(a, f, q) == IF q = 0 THEN f ELSE Turned(a, Clockwise(a, f), q - 1)

\* The pieces of the layer(s) a token turns, by their position
InLayer(pos, id) ==
    IF id \in {"U", "D", "L", "R", "F", "B"} THEN Dot(pos, FACE_COORD[id]) = 1
    ELSE IF id \in {"M", "E", "S"} THEN Dot(pos, FACE_COORD[TurnFace[id]]) = 0
    ELSE TRUE

\* The piece c after the physical turn the token denotes
PhysicalTurn(c, move) ==
    IF ~InLayer(Position(c.colors), move[1]) THEN c
    ELSE LET to(f) == Turned(TurnFace[move[1]], f, Quarters(move))
         IN  [cubie_type |-> c.cubie_type,
              colors |-> [g \in {to(f) : f \in DOMAIN c.colors} |->
                             c.colors[CHOOSE f \in DOMAIN c.colors : to(f) = g]]]

\* The face, slice and whole-rotation tokens, plain, primed and half-turn
NotationTokens ==
    {<<id>> \o suf : id \in DOMAIN TurnFace, suf \in {<<>>, <<"'">>, <<"2">>}}

\* C2: after rotate with one face, slice or whole-rotation token, every piece
\* is where the physical turn of standard notation puts it (an outer turn
\* clockwise seen from its face, M as L, E as D, S as F, X as R, Y as U, Z as F).
PhysicalMovement ==
    (op = "rotate" /\ moves \in NotationTokens) =>
        /\ err = "none"
        /\ \A i \in 1..Len(start) : cubies[i] = PhysicalTurn(start[i], moves)

\* C3: rotate raises for every move string holding a token outside the notation
InvalidMoveRejected ==
    (op = "rotate" /\ ~ValidMoves(moves)) => err # "none"

----------------------------------------------------------------------------

CountOf(cs, type) == Cardinality({i \in 1..Len(cs) : cs[i].cubie_type = type})

DistinctPositions ==
    \A i, j \in 1..Len(cubies) :
        i # j => Position(cubies[i].colors) # Position(cubies[j].colors)

\* A cube whose pieces a valid algorithm moved away from where they were
DistinctPositionsWitness ==
    /\ op = "rotate"
    /\ err = "none"
    /\ moves \in Algorithms
    /\ Cardinality({i \in 1..Len(cubies) :
                      Position(cubies[i].colors) # Position(start[i].colors)}) >= 8

NonZero(pos) == Cardinality({k \in 1..3 : pos[k] # 0})

\* C6: every piece's derived position has its components in {-1, 0, 1} and as
\* many nonzero components as the piece has stickers
PositionValidity ==
    \A i \in 1..Len(cubies) :
        LET pos == Position(cubies[i].colors)
        IN  /\ \A k \in 1..3 : pos[k] \in {-1, 0, 1}
            /\ NonZero(pos) = Cardinality(DOMAIN cubies[i].colors)

\* A corner that a rotate call moved to another position
PositionValidityWitness ==
    /\ op \in {"rotate", "get_pll_plot"}
    /\ err = "none"
    /\ ValidMoves(moves)
    /\ \E i \in 1..Len(cubies) :
           /\ cubies[i].cubie_type = "Corner"
           /\ Position(cubies[i].colors) # Position(start[i].colors)

\* C7: every piece has 1 sticker if a center, 2 if an edge, 3 if a corner, and
\* the category it was built with; a rotate call with valid tokens raises
\* nothing, so each of its pieces is one Cubie.rotate produced.
CategoryStickerCount ==
    /\ \A i \in 1..Len(cubies) :
           /\ cubies[i].cubie_type = create_solved_cube[i].cubie_type
           /\ Cardinality(DOMAIN cubies[i].colors) =
                  (CASE cubies[i].cubie_type = "Center" -> 1
                     [] cubies[i].cubie_type = "Edge" -> 2
                     [] cubies[i].cubie_type = "Corner" -> 3)
    /\ (op \in {"rotate", "reverse", "algorithm"} /\ ValidMoves(moves)) => err = "none"

\* An edge and a corner relabelled by a whole-cube rotation
CategoryStickerCountWitness ==
    /\ op = "rotate"
    /\ err = "none"
    /\ moves = <<"x", "'">>
    /\ \E i, j \in 1..Len(cubies) :
           /\ cubies[i].cubie_type = "Edge" /\ cubies[i] # start[i]
           /\ cubies[j].cubie_type = "Corner" /\ cubies[j] # start[j]

\* The colours a piece carries, each with the number of stickers showing it
ColourBag(c) ==
    [col \in {c.colors[f] : f \in DOMAIN c.colors} |->
        Cardinality({f \in DOMAIN c.colors : c.colors[f] = col})]

\* C8: the i-th piece carries the colours the i-th piece of the solved cube
\* carries, and the colours it carried before the last rotate call
ColoursPreserved ==
    \A i \in 1..Len(cubies) :
        /\ ColourBag(cubies[i]) = ColourBag(create_solved_cube[i])
        /\ ColourBag(cubies[i]) = ColourBag(start[i])

\* A rotate call that changed the face keys of a piece
ColoursPreservedWitness ==
    /\ op = "rotate"
    /\ err = "none"
    /\ ValidMoves(moves)
    /\ \E i \in 1..Len(cubies) : DOMAIN cubies[i].colors # DOMAIN start[i].colors

----------------------------------------------------------------------------
(* Properties of SpecRepeat *)

\* The quarter-turn tokens: one identifier, plain or primed
QuarterTurnTokens ==
    {<<id>> \o suf : id \in MoveIds \cup LowerRotationIds, suf \in {<<>>, <<"'">>}}

\* C9: a quarter-turn token applied four times leaves the cube as it was, and
\* applied twice leaves it as one application of the half-turn token of the
\* same identifier leaves it
OrderFour ==
    moves \in QuarterTurnTokens =>
        /\ err = "none"
        /\ n = 4 => cubies = start
        /\ n = 2 => \E half \in {CubeRotate(start, <<moves[1], "2">>)} :
                        half.err = "none" /\ cubies = half.cubies

\* A scrambled cube after four applications of a primed wide turn
OrderFourWitness ==
    /\ moves = <<"r", "'">>
    /\ n = 4
    /\ start # create_solved_cube
    /\ cubies = start

\* C10: from the solved cube, R U R' U' applied six times gives the solved
\* cube, and applied one to five times a cube that is not solved
SexyMoveOrderSix ==
    (start = create_solved_cube /\ moves = SexyMove) =>
        /\ err = "none"
        /\ n = 6 => cubies = create_solved_cube
        /\ n \in 1..5 => cubies # create_solved_cube

\* The solved cube back after the sixth application
SexyMoveOrderSixWitness ==
    /\ start = create_solved_cube
    /\ moves = SexyMove
    /\ n = 6
    /\ cubies = create_solved_cube

----------------------------------------------------------------------------
(* The relabeling rule in closed form *)

\* The two faces on the axis a token turns about
AxisPoles(move) ==
    IF Upper(move[1]) \in {"R", "L", "X", "M"} THEN {"R", "L"}
    ELSE IF Upper(move[1]) \in {"U", "D", "Y", "E"} THEN {"U", "D"}
    ELSE {"F", "B"}

\* The four faces around the axis, in their cyclic order
AxisCycle(move) ==
    IF AxisPoles(move) = {"R", "L"} THEN <<"U", "B", "D", "F">>
    ELSE IF AxisPoles(move) = {"U", "D"} THEN <<"F", "L", "B", "R">>
    ELSE <<"U", "R", "D", "L">>

Magnitude(move) ==
    IF move[Len(move)] = "2" THEN 2
    ELSE IF Len(move) >= 2 /\ move[Len(move) - 1] = "2" /\ move[Len(move)] = "'" THEN 2
    ELSE IF move[Len(move)] = "'" THEN -1
    ELSE 1

Sign(move) ==
    IF Upper(move[1]) \in {"U", "R", "F", "X", "Y", "Z", "M", "E", "S"} THEN 1 ELSE -1

\* The face k = sign * magnitude mod 4 positions ahead of f in the cycle
Ahead(move, f) ==
    LET cycle == AxisCycle(move)
        k == (Sign(move) * Magnitude(move)) % 4
        i == CHOOSE j \in 1..4 : cycle[j] = f
    IN  cycle[((i - 1 + k) % 4) + 1]

\* C11: for a valid token handed to rotate, the map Move.rotation_loop builds
\* has the four faces around the token's axis as its keys and neither pole of
\* the axis, sends each key to the face sign * magnitude (mod 4) positions
\* ahead in the axis cycle, and is a bijection on the four faces.
ClosedFormLoop ==
    (op = "rotate" /\ moves \in ValidTokens) =>
        LET loop == rotation_loop(moves)
            cycle == {AxisCycle(moves)[i] : i \in 1..4}
        IN  /\ DOMAIN loop = cycle
            /\ DOMAIN loop \cap AxisPoles(moves) = {}
            /\ \A f \in cycle : loop[f] = Ahead(moves, f)
            /\ {loop[f] : f \in cycle} = cycle
            /\ \A f, g \in cycle : loop[f] = loop[g] => f = g

\* rotate called with a primed half turn of a face whose sign is -1
ClosedFormLoopWitness ==
    /\ op = "rotate"
    /\ moves = <<"l", "2", "'">>
    /\ err = "none"
    /\ rotation_loop(moves)["U"] = "D"
    /\ cubies # start

----------------------------------------------------------------------------
(* The pieces a move affects *)

\* The kind of move the identifying character names
Kind(move) ==
    IF move[1] \in {"U", "D", "L", "R", "F", "B"} THEN "face"
    ELSE IF move[1] \in {"u", "d", "l", "r", "f", "b"} THEN "wide"
    ELSE IF move[1] \in {"M", "E", "S"} THEN "slice"
    ELSE "rotation"

\* The faces opposite one another, pair by pair
Opposite(f) ==
    CASE f = "U" -> "D" [] f = "D" -> "U"
      [] f = "R" -> "L" [] f = "L" -> "R"
      [] f = "F" -> "B" [] f = "B" -> "F"

\* Whether the move's kind makes it turn the piece c
Affected(c, move) ==
    CASE Kind(move) = "face" -> move[1] \in DOMAIN c.colors
      [] Kind(move) = "wide" -> Opposite(Upper(move[1])) \notin DOMAIN c.colors
      [] Kind(move) = "slice" -> DOMAIN c.colors \cap AxisPoles(move) = {}
      [] Kind(move) = "rotation" -> TRUE

\* C12: after rotate with one valid token, Cubie.rotate took its early return
\* for exactly the pieces the move's kind does not affect (no sticker on the
\* face for a face turn, a sticker on the opposite face for a wide turn, a
\* sticker on a pole of the axis for a slice, none for a rotation), and each
\* of these pieces is equal to what it was.
OnlyAffectedChange ==
    (op = "rotate" /\ moves \in ValidTokens) =>
        \A i \in 1..Len(start) :
            /\ Unaffected(start[i], moves) <=> ~Affected(start[i], moves)
            /\ ~Affected(start[i], moves) => cubies[i] = start[i]

\* A wide turn on a scrambled cube: it changed pieces of its two layers and
\* left the pieces of the opposite layer
OnlyAffectedChangeWitness ==
    /\ op = "rotate"
    /\ moves = <<"r">>
    /\ start # create_solved_cube
    /\ \E i, j \in 1..Len(start) :
           /\ Affected(start[i], moves) /\ cubies[i] # start[i]
           /\ ~Affected(start[j], moves) /\ cubies[j] = start[j]

----------------------------------------------------------------------------
(* The R turn *)

\* The face a sticker on f is on after R: U -> B -> D -> F -> U, R stays
RCycle(f) ==
    CASE f = "U" -> "B" [] f = "B" -> "D" [] f = "D" -> "F" [] f = "F" -> "U"
      [] f = "R" -> "R" [] f = "L" -> "L"

\* The first corner of the solved cube
URF == [U |-> "white", R |-> "red", F |-> "green"]

\* C13: after rotate("R") every piece that had an R sticker has each of its
\* stickers on the face the cycle U -> B -> D -> F -> U sends it to, the R
\* sticker still on R, and every other piece is equal to what it was; the
\* corner {U: white, R: red, F: green} of the solved cube has become
\* {B: white, R: red, U: green}.
RTurn ==
    (op = "rotate" /\ moves = <<"R">>) =>
        /\ err = "none"
        /\ \A i \in 1..Len(start) :
               IF "R" \in DOMAIN start[i].colors
               THEN /\ cubies[i].cubie_type = start[i].cubie_type
                    /\ DOMAIN cubies[i].colors = {RCycle(f) : f \in DOMAIN start[i].colors}
                    /\ \A f \in DOMAIN start[i].colors :
                           cubies[i].colors[RCycle(f)] = start[i].colors[f]
               ELSE cubies[i] = start[i]
        /\ \A i \in 1..Len(start) :
               start[i].colors = URF =>
                   cubies[i].colors = [B |-> "white", R |-> "red", U |-> "green"]

\* R applied to the solved cube: the corner of U, R and F now on B, R and U
RTurnWitness ==
    /\ op = "rotate"
    /\ moves = <<"R">>
    /\ start = create_solved_cube
    /\ \E i \in 1..Len(start) :
           /\ start[i].colors = URF
           /\ cubies[i].colors = [B |-> "white", R |-> "red", U |-> "green"]

----------------------------------------------------------------------------
(* The sequence inverter *)

\* A token inverted: a half turn is itself, a primed token loses its prime, a
\* plain token gains one
Inverted(t) ==
    IF t[Len(t)] = "2" THEN t
    ELSE IF Len(t) >= 2 /\ t[Len(t) - 1] = "2" /\ t[Len(t)] = "'" THEN t
    ELSE IF t[Len(t)] = "'" THEN SubSeq(t, 1, Len(t) - 1)
    ELSE Append(t, "'")

\* C14: where reverse_moves was applied to the move string (before the second
\* rotate, and in get_pll_plot), its result has as many tokens as the string;
\* for a string of valid tokens the j-th token of the result is the j-th token
\* from the end inverted (2 and 2' kept, a prime removed, a prime added to a
\* plain token); and reverse_moves("R U R' U'") is "U R U' R'".
ReverseMovesRule ==
    op \in {"reverse", "get_pll_plot"} =>
        LET toks == Split(moves)
            out == Split(reverse_moves(moves))
        IN  /\ Len(out) = Len(toks)
            /\ reverse_moves(moves) = Join(out)
            /\ ValidMoves(moves) =>
                   \A j \in 1..Len(toks) : out[j] = Inverted(toks[Len(toks) + 1 - j])
            /\ moves = SexyMove =>
                   reverse_moves(moves) = <<"U", " ", "R", " ", "U", "'", " ", "R", "'">>

\* rotate(reverse_moves("R U R' U'")) has run
ReverseMovesRuleWitness ==
    /\ op = "reverse"
    /\ moves = SexyMove
    /\ err = "none"
    /\ Split(reverse_moves(moves)) = << <<"U">>, <<"R">>, <<"U", "'">>, <<"R", "'">> >>

----------------------------------------------------------------------------
(* The solved cube *)

\* The positions of a 3x3x3 cube's pieces: every cell but the core
CubePositions ==
    {<<x, y, z>> : x, y, z \in {-1, 0, 1}} \ {<<0, 0, 0>>}

\* C16: the cube Cube() builds has every sticker on the face of its colour,
\* a center on each of the six faces carrying that face's colour, and its
\* pieces on pairwise distinct positions that cover every center, edge and
\* corner position.
SolvedIsCanonical ==
    op = "Cube" =>
        /\ \A i \in 1..Len(cubies) :
               \A f \in DOMAIN cubies[i].colors : cubies[i].colors[f] = FACE_COLOR[f]
        /\ \A f \in FaceSet :
               \E i \in 1..Len(cubies) :
                   /\ cubies[i].cubie_type = "Center"
                   /\ cubies[i].colors = [g \in {f} |-> FACE_COLOR[f]]
        /\ \A i, j \in 1..Len(cubies) :
               i # j => Position(cubies[i].colors) # Position(cubies[j].colors)
        /\ {Position(cubies[i].colors) : i \in 1..Len(cubies)} = CubePositions
        /\ \A i \in 1..Len(cubies) :
               NonZero(Position(cubies[i].colors)) = expected_colors[cubies[i].cubie_type]

\* The cube as Cube() built it, before any rotate
SolvedIsCanonicalWitness ==
    /\ op = "Cube"
    /\ n = 0
    /\ Len(cubies) = 26
    /\ \E i \in 1..Len(cubies) :
           cubies[i].colors = [U |-> "white", L |-> "orange", B |-> "blue"]

----------------------------------------------------------------------------
(* The empty move string; a rotate call that raises *)

\* C18: rotate with the empty string, or with a string of blanks only, on the
\* solved or a scrambled cube raises nothing and leaves every piece as it was
IdentityMove ==
    (op = "rotate" /\ \A i \in 1..Len(moves) : moves[i] = " ") =>
        /\ err = "none"
        /\ cubies = start

\* rotate(" ") has run on a scrambled cube
IdentityMoveWitness ==
    /\ op = "rotate"
    /\ moves = <<" ">>
    /\ start # create_solved_cube
    /\ cubies = start
    /\ err = "none"

\* C19: a rotate call that raised has left the piece collection as it was
\* before the call
FailedRotateAtomic ==
    (op = "rotate" /\ err # "none") => cubies = start

----------------------------------------------------------------------------
(* SpecCubie: one piece is constructed from a category and a colour dict,  *)
(* then turned by one token. start holds the arguments of the constructor, *)
(* then the piece before the turn; cubies holds the piece the call         *)
(* returned, and nothing when the constructor raised.                      *)

\* Most stickers of a colour dict handed to the constructor
MaxStickers == 4

\* The colour dicts handed to the constructor: up to MaxStickers faces, each
\* with the colour of the face
ColorDicts ==
    {[f \in S |-> FACE_COLOR[f]] :
        S \in {T \in SUBSET FaceSet : Cardinality(T) <= MaxStickers}}

InitCubie ==
    /\ cubies = <<>>
    /\ start = <<>>
    /\ moves = <<>>
    /\ n = 0
    /\ err = "none"
    /\ op = "init"
    /\ cubes = <<>>
    /\ requests = <<>>
    /\ figures = <<>>
    /\ db = <<>>

\* Cubie(cubie_type, colors)
NewCubie(cubie_type, colors) ==
    /\ op = "init"
    /\ \E c \in {Cubie(cubie_type, colors)} :
           /\ cubies' = IF IsError(c) THEN <<>> ELSE <<c>>
           /\ err' = IF IsError(c) THEN c.error ELSE "none"
    /\ start' = <<[cubie_type |-> cubie_type, colors |-> colors]>>
    /\ op' = "Cubie"
    /\ UNCHANGED <<moves, n, cubes, requests, figures, db>>

\* cubie.rotate(move) on the piece the constructor returned
RotateCubie(move) ==
    /\ op = "Cubie"
    /\ err = "none"
    /\ \E c \in {CubieRotate(cubies[1], move)} :
           /\ cubies' = IF IsError(c) THEN cubies ELSE <<c>>
           /\ err' = IF IsError(c) THEN c.error ELSE "none"
    /\ start' = cubies
    /\ moves' = move
    /\ n' = n + 1
    /\ op' = "Cubie.rotate"
    /\ UNCHANGED <<cubes, requests, figures, db>>

NextCubie ==
    \/ \E cubie_type \in CubieTypes, colors \in ColorDicts : NewCubie(cubie_type, colors)
    \/ \E move \in Tokens : RotateCubie(move)

SpecCubie == InitCubie /\ [][NextCubie]_vars

----------------------------------------------------------------------------
(* Properties of SpecCubie *)

\* The number of stickers of a category
StickersOf(cubie_type) ==
    CASE cubie_type = "Center" -> 1
      [] cubie_type = "Edge" -> 2
      [] cubie_type = "Corner" -> 3

\* C17: the constructor called with a colour dict whose size is not the
\* sticker count of the category raises and returns no piece; and
\* Cubie.rotate of a piece the constructor returned, with a valid token,
\* raises nothing and returns a piece.
StickerCountEnforced ==
    /\ (op = "Cubie" /\ Cardinality(DOMAIN start[1].colors) # StickersOf(start[1].cubie_type)) =>
           (err # "none" /\ cubies = <<>>)
    /\ (op = "Cubie.rotate" /\ moves \in ValidTokens) =>
           /\ err = "none"
           /\ Len(cubies) = 1
           /\ Cardinality(DOMAIN cubies[1].colors) = StickersOf(cubies[1].cubie_type)

\* An edge handed three stickers was refused
StickerCountEnforcedWitness ==
    /\ op = "Cubie"
    /\ start[1].cubie_type = "Edge"
    /\ Cardinality(DOMAIN start[1].colors) = 3
    /\ err = "ValueError"
    /\ cubies = <<>>

\* C20: every piece the constructor returned has a derived position with as
\* many nonzero components as the piece has stickers
PositionEnforced ==
    (op = "Cubie" /\ err = "none") =>
        NonZero(Position(cubies[1].colors)) = Cardinality(DOMAIN cubies[1].colors)

----------------------------------------------------------------------------
(* SpecRequests: the handlers that build a cube, get_plot, get_pll_plot and *)
(* generate_training_question, serving requests at the same time, each on   *)
(* a thread of the server's pool. A thread is switched between the passes   *)
(* of the loop of Cube.rotate: each pass assigns self.cubies once.          *)

\* Requests served at the same time
MaxRequests == 2

RequestIds == 1..MaxRequests

\* The move strings posted to get_plot
PlotMoves == {<<>>, Join(<< <<"R">>, <<"U", "'">> >>), Join(<< <<"F">>, <<"Q">> >>)}

\* The algorithms pll_data holds for the names requested
PllAlgorithms == {<<"R", "'">>}

\* generate_training_question: y_moves and u_moves
y_moves == << <<"y">>, <<"y", "'">>, <<"y", "2">> >>

u_moves == << <<"U">>, <<"U", "'">>, <<"U", "2">> >>

\* random.choice(seq): any of its elements
Choices(seq) == {seq[i] : i \in 1..Len(seq)}

\* The tokens of a list of move strings, call after call
RECURSIVE TokensOf(_)
TokensOf(calls) ==
    IF calls = <<>> THEN <<>> ELSE Split(calls[1]) \o TokensOf(Tail(calls))

\* The module keeping one cube for every handler
NewCube_shared(objs) ==
    IF objs = <<>> THEN <<create_solved_cube>> ELSE objs

\* Cube(): a new object holding a new solved piece list; its id is the last
NewCube(objs) == Append(objs, create_solved_cube)

InitRequests ==
    /\ cubes = <<>>
    /\ requests = [r \in RequestIds |-> [pc |-> "idle"]]
    /\ figures = <<>>
    /\ db = <<>>
    /\ cubies = <<>>
    /\ start = <<>>
    /\ moves = <<>>
    /\ n = 0
    /\ err = "none"
    /\ op = "serve"

\* The handler's locals once it has built its cube: the move strings it will
\* call cube.rotate with, their tokens, the number of passes made, the cube
Started(handler, calls, objs) ==
    [pc |-> IF TokensOf(calls) = <<>> THEN "plot" ELSE "rotate",
     handler |-> handler,
     calls |-> calls,
     tokens |-> TokensOf(calls),
     i |-> 0,
     cube |-> Len(objs),
     err |-> "none"]

\* get_plot from its entry to cube = Cube()
GetPlot(r, posted) ==
    /\ requests[r].pc = "idle"
    /\ cubes' = NewCube(cubes)
    /\ requests' = [requests EXCEPT ![r] = Started("get_plot", <<posted>>, cubes')]
    /\ UNCHANGED <<cubies, start, moves, n, err, op, figures, db>>

\* get_pll_plot from its entry to cube = Cube(), for a name whose algorithm
\* is algorithm
GetPllPlotStart(r, algorithm) ==
    /\ requests[r].pc = "idle"
    /\ cubes' = NewCube(cubes)
    /\ LET reversed_algorithm == reverse_moves(algorithm)
       IN  requests' = [requests EXCEPT ![r] =
               Started("get_pll_plot", << <<"x", "2">>, reversed_algorithm >>, cubes')]
    /\ UNCHANGED <<cubies, start, moves, n, err, op, figures, db>>

\* The move string generate_training_question builds
FinalAlgorithm(algorithm, random_y_move_start, random_y_move_end, random_u_move) ==
    LET reversed_algorithm == reverse_moves(algorithm)
    IN  random_y_move_start \o <<" ">> \o reversed_algorithm \o <<" ">>
            \o random_y_move_end \o <<" ">> \o random_u_move

\* generate_training_question from its entry to cube = Cube()
GenerateTrainingQuestion(r, algorithm) ==
    /\ requests[r].pc = "idle"
    /\ cubes' = NewCube(cubes)
    /\ \E random_y_move_start \in Choices(y_moves),
          random_y_move_end \in Choices(y_moves),
          random_u_move \in Choices(u_moves) :
           requests' = [requests EXCEPT ![r] =
               Started("generate_training_question",
                       <<FinalAlgorithm(algorithm, random_y_move_start,
                                        random_y_move_end, random_u_move)>>,
                       cubes')]
    /\ UNCHANGED <<cubies, start, moves, n, err, op, figures, db>>

\* One pass of the loop of Cube.rotate in the handler of r. An exception ends
\* the handler.
RotatePass(r) ==
    /\ requests[r].pc = "rotate"
    /\ LET q == requests[r]
       IN  \E res \in {RotateOne(cubes[q.cube], q.tokens[q.i + 1])} :
             /\ cubes' = [cubes EXCEPT ![q.cube] = res.cubies]
             /\ requests' = [requests EXCEPT ![r] =
                    [q EXCEPT !.i = IF res.err = "none" THEN q.i + 1 ELSE q.i,
                              !.err = res.err,
                              !.pc = IF res.err # "none" THEN "raised"
                                     ELSE IF q.i + 1 = Len(q.tokens) THEN "plot"
                                     ELSE "rotate"]]
    /\ UNCHANGED <<cubies, start, moves, n, err, op, figures, db>>

\* cube.plot_to_base64 reads the pieces of the handler's cube
PlotToBase64(r) ==
    /\ requests[r].pc = "plot"
    /\ requests' = [requests EXCEPT ![r] =
           [requests[r] EXCEPT !.pc = "done"] @@ [plotted |-> cubes[requests[r].cube]]]
    /\ UNCHANGED <<cubes, cubies, start, moves, n, err, op, figures, db>>

NextRequests ==
    \/ \E r \in RequestIds, posted \in PlotMoves : GetPlot(r, posted)
    \/ \E r \in RequestIds, algorithm \in PllAlgorithms : GetPllPlotStart(r, algorithm)
    \/ \E r \in RequestIds, algorithm \in PllAlgorithms : GenerateTrainingQuestion(r, algorithm)
    \/ \E r \in RequestIds : RotatePass(r)
    \/ \E r \in RequestIds : PlotToBase64(r)

SpecRequests == InitRequests /\ [][NextRequests]_vars

----------------------------------------------------------------------------
(* Properties of SpecRequests *)

\* The lists of move strings a handler may call cube.rotate with
HandlerCalls ==
    {<<posted>> : posted \in PlotMoves}
        \cup {<< <<"x", "2">>, reverse_moves(algorithm) >> : algorithm \in PllAlgorithms}
        \cup {<<FinalAlgorithm(algorithm, y1, y2, u)>> :
                algorithm \in PllAlgorithms,
                y1 \in Choices(y_moves), y2 \in Choices(y_moves), u \in Choices(u_moves)}

\* The handler run with no other request served: Cube(), then its rotate
\* calls one after the other
RECURSIVE RunCalls(_, _, _)
RunCalls(cs, calls, k) ==
    IF k > Len(calls) THEN [cubies |-> cs, err |-> "none"]
    ELSE LET res == CubeRotate(cs, calls[k])
         IN  IF res.err # "none" THEN res ELSE RunCalls(res.cubies, calls, k + 1)

\* For each list of calls, the cube a handler running alone ends with and the
\* exception it ends with
RunAlone ==
    {[calls |-> calls, end |-> RunCalls(create_solved_cube, calls, 1)] :
        calls \in HandlerCalls}

\* For each list of calls and each number of passes, the cube a handler
\* running alone holds after that many passes
PassesAlone ==
    UNION {{[calls |-> calls, i |-> i,
             cubies |-> RotateTokens(create_solved_cube,
                                     SubSeq(TokensOf(calls), 1, i), 1).cubies] :
               i \in 0..Len(TokensOf(calls))} :
           calls \in HandlerCalls}

\* C15: no two requests hold the same cube; at every moment the cube of a
\* request is the cube its handler would hold after the same number of passes
\* with no other request served; a request whose rotate calls have ended
\* holds the cube, and ended with the exception, of its handler run alone;
\* and the pieces it hands to the plot are those.
RequestsIsolated ==
    /\ \A r1, r2 \in RequestIds :
           (r1 # r2 /\ requests[r1].pc # "idle" /\ requests[r2].pc # "idle") =>
               requests[r1].cube # requests[r2].cube
    /\ \A r \in RequestIds :
           LET q == requests[r]
           IN  q.pc # "idle" =>
                 /\ [calls |-> q.calls, i |-> q.i, cubies |-> cubes[q.cube]] \in PassesAlone
                 /\ q.pc \in {"plot", "done", "raised"} =>
                        [calls |-> q.calls,
                         end |-> [cubies |-> cubes[q.cube], err |-> q.err]] \in RunAlone
                 /\ q.pc = "done" =>
                        [calls |-> q.calls,
                         end |-> [cubies |-> q.plotted, err |-> "none"]] \in RunAlone

\* Two requests served with their passes interleaved: a training question
\* whose cube was built first is two passes in, a get_pll_plot request that
\* started later has plotted
RequestsIsolatedWitness ==
    \E r1, r2 \in RequestIds :
        /\ r1 # r2
        /\ requests[r1].pc = "done"
        /\ requests[r1].handler = "get_pll_plot"
        /\ requests[r2].pc = "rotate"
        /\ requests[r2].handler = "generate_training_question"
        /\ requests[r2].i = 2
        /\ requests[r2].cube < requests[r1].cube
        /\ cubes[requests[r1].cube] # cubes[requests[r2].cube]

----------------------------------------------------------------------------
(* Layers *)

\* The three layer turns of each axis
LayerTurns == {<<"R", "M", "L">>, <<"U", "E", "D">>, <<"F", "S", "B">>}

\* The wide and whole-cube moves as layer turns
Decomposition ==
    [r |-> Join(<< <<"R">>, <<"M">> >>),
     l |-> Join(<< <<"L">>, <<"M", "'">> >>),
     X |-> Join(<< <<"R">>, <<"M">>, <<"L", "'">> >>),
     u |-> Join(<< <<"U">>, <<"E">> >>),
     d |-> Join(<< <<"D">>, <<"E", "'">> >>),
     Y |-> Join(<< <<"U">>, <<"E">>, <<"D", "'">> >>),
     f |-> Join(<< <<"F">>, <<"S">> >>),
     b |-> Join(<< <<"B">>, <<"S", "'">> >>),
     Z |-> Join(<< <<"F">>, <<"S">>, <<"B", "'">> >>)]

\* C21: every piece of every state is turned by exactly one of the three layer
\* turns of each axis (Cubie.rotate takes no early return for exactly one of
\* R, M, L; of U, E, D; of F, S, B); and rotate with r, l, X, u, d, Y, f, b
\* or Z leaves the cube that rotate with R M, L M', R M L', U E, D E',
\* U E D', F S, B S', F S B' leaves from the same state.
LayerDecomposition ==
    /\ \A i \in 1..Len(cubies) :
           \A t \in LayerTurns :
               Cardinality({k \in 1..3 : ~Unaffected(cubies[i], <<t[k]>>)}) = 1
    /\ (op = "rotate" /\ Len(moves) = 1 /\ moves[1] \in DOMAIN Decomposition) =>
           /\ err = "none"
           /\ \E res \in {CubeRotate(start, Decomposition[moves[1]])} :
                  res.err = "none" /\ cubies = res.cubies

\* X applied to a scrambled cube
LayerDecompositionWitness ==
    /\ op = "rotate"
    /\ moves = <<"X">>
    /\ start # create_solved_cube
    /\ cubies # start
    /\ cubies = CubeRotate(start, Decomposition["X"]).cubies

----------------------------------------------------------------------------
(* Moves about one axis *)

\* The valid tokens whose identifier belongs to the axis group of move
SameAxis(move) == {b \in ValidTokens : AxisPoles(b) = AxisPoles(move)}

\* C22: for a valid token a that rotate was called with and every valid token
\* b of the same axis group, b after a leaves the cube that a after b leaves,
\* from the solved and from a scrambled cube; and a call with two tokens of
\* one axis group leaves the cube the call with the two exchanged leaves.
SameAxisCommute ==
    /\ (op = "rotate" /\ moves \in ValidTokens) =>
           /\ err = "none"
           /\ \A b \in SameAxis(moves) :
                  \E ab \in {CubeRotate(cubies, b)} :
                    \E ba \in {CubeRotate(start, Join(<<b, moves>>))} :
                        ab.err = "none" /\ ba.err = "none" /\ ab.cubies = ba.cubies
    /\ (op = "rotate" /\ Len(Split(moves)) = 2 /\ ValidMoves(moves)
            /\ AxisPoles(Split(moves)[1]) = AxisPoles(Split(moves)[2])) =>
           cubies = CubeRotate(start, Join(<<Split(moves)[2], Split(moves)[1]>>)).cubies

\* rotate("M r") on a scrambled cube
SameAxisCommuteWitness ==
    /\ op = "rotate"
    /\ moves = Join(<< <<"M">>, <<"r">> >>)
    /\ start # create_solved_cube
    /\ cubies # start
    /\ cubies = CubeRotate(start, Join(<< <<"r">>, <<"M">> >>)).cubies

----------------------------------------------------------------------------
(* Centers *)

\* The uppercase face tokens, plain, primed and half turn
FaceTokens ==
    {<<id>> \o suf : id \in {"U", "D", "L", "R", "F", "B"},
                     suf \in {<<>>, <<"'">>, <<"2">>}}

\* C23: after rotate on the solved cube with a move string holding uppercase
\* face tokens only, and after rotate with its reverse, the six centers are
\* the centers of the solved cube
CentersFixed ==
    (/\ op \in {"rotate", "reverse"}
     /\ start = create_solved_cube
     /\ \A k \in 1..Len(Split(moves)) : Split(moves)[k] \in FaceTokens) =>
        /\ err = "none"
        /\ \A i \in 1..Len(centers_info) :
               cubies[i] = [cubie_type |-> "Center", colors |-> centers_info[i]]

\* The T permutation applied to the solved cube
CentersFixedWitness ==
    /\ op = "rotate"
    /\ start = create_solved_cube
    /\ Len(Split(moves)) = 14
    /\ \A k \in 1..Len(Split(moves)) : Split(moves)[k] \in FaceTokens
    /\ cubies # start
    /\ cubies[1] = [cubie_type |-> "Center", colors |-> [U |-> "white"]]

----------------------------------------------------------------------------
(* The kind of a move *)

\* C29: for a token handed to rotate, Move sets move_type to
\* "coordinate_rotation" when the first character is x, y or z and to
\* "face_rotation" otherwise
MoveTypeByKind ==
    (op = "rotate" /\ moves \in ValidTokens) =>
        move_type(moves) = IF moves[1] \in {"x", "y", "z"}
                           THEN "coordinate_rotation"
                           ELSE "face_rotation"

----------------------------------------------------------------------------
(* models/cube.py, database.py, routers/training.py *)

\* str.lower() on one character, for the letters the PLL names are built from
LowerCase == [T |-> "t", U |-> "u", A |-> "a", Z |-> "z"]

Lower(c) == IF c \in DOMAIN LowerCase THEN LowerCase[c] ELSE c

\* str.lower()
LowerStr(s) == [i \in 1..Len(s) |-> Lower(s[i])]

\* str.strip(): the blanks at both ends removed
RECURSIVE Strip(_)
Strip(s) ==
    IF s = <<>> THEN s
    ELSE IF s[1] = " " THEN Strip(Tail(s))
    ELSE IF s[Len(s)] = " " THEN Strip(SubSeq(s, 1, Len(s) - 1))
    ELSE s

\* What load_pll_data() returns: the algorithm of each PLL name of db/PLL.txt
pll_data ==
    (<<"T">> :> Join(<< <<"R">>, <<"U">>, <<"R", "'">>, <<"U", "'">>, <<"R", "'">>,
                        <<"F">>, <<"R", "2">>, <<"U", "'">>, <<"R", "'">>,
                        <<"U", "'">>, <<"R">>, <<"U">>, <<"R", "'">>, <<"F", "'">> >>))
    @@ (<<"U", "a">> :> Join(<< <<"M", "2">>, <<"U">>, <<"M">>, <<"U", "2">>,
                                <<"M", "'">>, <<"U">>, <<"M", "2">> >>))

\* The fields of the pydantic model TrainingQuestion, none with a default
TrainingQuestionFields == {"pll_case", "plot", "available_answers", "full_algorithm"}

\* TrainingQuestion(**fields): pydantic refuses a missing required field
TrainingQuestion(fields) ==
    IF TrainingQuestionFields \subseteq DOMAIN fields THEN fields
    ELSE Raise("ValidationError")

\* generate_training_question for every PLL case and every draw of the random
\* moves: the move string built, the cube rotated by it, and what the call
\* returns or raises. The plot is the picture of the cube's pieces.
GeneratedQuestions ==
    {LET final_algorithm == FinalAlgorithm(pll_data[pll_case], y1, y2, u)
         cube == CubeRotate(create_solved_cube, final_algorithm)
     IN  [pll_case |-> pll_case,
          final_algorithm |-> final_algorithm,
          cubies |-> cube.cubies,
          returned |->
              IF cube.err # "none" THEN Raise(cube.err)
              ELSE TrainingQuestion([pll_case |-> pll_case,
                                     plot |-> cube.cubies,
                                     available_answers |-> DOMAIN pll_data])] :
        pll_case \in DOMAIN pll_data,
        y1 \in Choices(y_moves), y2 \in Choices(y_moves), u \in Choices(u_moves)}

\* generate_training_question(selected_plls, pll_data): its possible runs
generate_training_question(selected_plls) ==
    {g \in GeneratedQuestions : g.pll_case \in Choices(selected_plls)}

\* The integer primary key SQLite gives a new row: one more than the largest
NextId(table) ==
    IF DOMAIN table = {} THEN 1
    ELSE (CHOOSE i \in DOMAIN table : \A j \in DOMAIN table : j <= i) + 1

\* TrainingSession(selected_plls=...), with the column defaults
NewSession(selected_plls) ==
    [total_attempts |-> 0, correct_attempts |-> 0, ended |-> FALSE,
     selected_plls |-> selected_plls]

\* The attempts of the sessions left where they are
DeleteAttempts_none(attempts, session_ids) == attempts

\* db.query(TrainingAttempt).filter(session_id.in_(session_ids)).delete()
DeleteAttempts(attempts, session_ids) ==
    [a \in {i \in DOMAIN attempts : attempts[i].session_id \notin session_ids} |->
        attempts[a]]

\* db.query(TrainingSession).filter(id.in_(session_ids)).delete()
DeleteSessionRows(sessions, session_ids) ==
    [i \in DOMAIN sessions \ session_ids |-> sessions[i]]

----------------------------------------------------------------------------
(* SpecTraining: the handlers of routers/training.py that write the tables, *)
(* one request at a time. n holds the number of stored sessions before the  *)
(* request, requests what the handler returned or raised.                   *)

\* Most rows of training_sessions
MaxSessions == 2

\* Most rows of training_attempts
MaxAttempts == 2

SessionIds == 1..MaxSessions

\* The selections posted to start_session: none, an unknown name, known names
Selections == {<<>>, << <<"Z", "z">> >>, << <<"T">>, <<"U", "a">> >>}

\* The answers posted to submit_answer for the case T
UserAnswers == {<<"T">>, <<" ", "t", " ">>, <<"U", "a">>}

InitTraining ==
    /\ db = [sessions |-> <<>>, attempts |-> <<>>]
    /\ start = <<>>
    /\ requests = <<>>
    /\ moves = <<>>
    /\ cubies = <<>>
    /\ n = 0
    /\ err = "none"
    /\ op = "create_tables"
    /\ cubes = <<>>
    /\ figures = <<>>

\* The handler raised before it generated a question
Refused(handler, exception) ==
    /\ requests' = <<[handler |-> handler, returned |-> Raise(exception)]>>
    /\ err' = exception

\* The handler returned, no question generated
Returned(handler, response) ==
    /\ requests' = <<[handler |-> handler, returned |-> response]>>
    /\ err' = "none"

\* start_training_session
StartSession(selected_plls) ==
    /\ Cardinality(DOMAIN db.sessions) < MaxSessions
    /\ op' = "start_session"
    /\ n' = Cardinality(DOMAIN db.sessions)
    /\ IF selected_plls = <<>>
       THEN Refused("start_session", "HTTPException 400") /\ db' = db
       ELSE IF \E k \in 1..Len(selected_plls) : selected_plls[k] \notin DOMAIN pll_data
       THEN Refused("start_session", "HTTPException 400") /\ db' = db
       ELSE LET id == NextId(db.sessions)
            IN  /\ db' = [db EXCEPT !.sessions = @ @@ (id :> NewSession(selected_plls))]
                /\ \E first_question \in
                          {g.returned : g \in generate_training_question(selected_plls)} :
                       /\ err' = IF IsError(first_question) THEN first_question.error
                                 ELSE "none"
                       /\ requests' = <<[handler |-> "start_session",
                                         returned |->
                                             IF IsError(first_question) THEN first_question
                                             ELSE [session_id |-> id,
                                                   question |-> first_question]]>>
    /\ UNCHANGED <<cubies, start, moves, cubes, figures>>

\* submit_training_answer
SubmitAnswer(session_id, pll_case, user_answer) ==
    /\ Cardinality(DOMAIN db.attempts) < MaxAttempts
    /\ op' = "submit_answer"
    /\ n' = Cardinality(DOMAIN db.sessions)
    /\ IF session_id \notin DOMAIN db.sessions
       THEN Refused("submit_answer", "HTTPException 404") /\ db' = db
       ELSE LET session == db.sessions[session_id]
                is_correct == LowerStr(Strip(user_answer)) = LowerStr(Strip(pll_case))
                attempt == [session_id |-> session_id, is_correct |-> is_correct]
                updated == [session EXCEPT
                               !.total_attempts = @ + 1,
                               !.correct_attempts = IF is_correct THEN @ + 1 ELSE @]
            IN  /\ db' = [sessions |-> [db.sessions EXCEPT ![session_id] = updated],
                          attempts |-> db.attempts @@ (NextId(db.attempts) :> attempt)]
                /\ IF is_correct
                   THEN \E next_question \in
                            {g.returned :
                                g \in generate_training_question(session.selected_plls)} :
                          /\ err' = IF IsError(next_question) THEN next_question.error
                                    ELSE "none"
                          /\ requests' = <<[handler |-> "submit_answer",
                                            returned |->
                                                IF IsError(next_question) THEN next_question
                                                ELSE [is_correct |-> TRUE,
                                                      correct_answer |-> pll_case,
                                                      next_question |-> next_question]]>>
                   ELSE Returned("submit_answer",
                                 [is_correct |-> FALSE, correct_answer |-> pll_case])
    /\ UNCHANGED <<cubies, start, moves, cubes, figures>>

\* end_training_session
EndSession(session_id) ==
    /\ op' = "end_session"
    /\ n' = Cardinality(DOMAIN db.sessions)
    /\ IF session_id \notin DOMAIN db.sessions
       THEN Refused("end_session", "HTTPException 404") /\ db' = db
       ELSE /\ db' = [db EXCEPT !.sessions[session_id].ended = TRUE]
            /\ Returned("end_session", [message |-> "Session ended successfully"])
    /\ UNCHANGED <<cubies, start, moves, cubes, figures>>

\* delete_sessions
DeleteSessions(session_ids) ==
    /\ op' = "delete_sessions"
    /\ n' = Cardinality(DOMAIN db.sessions)
    /\ db' = [sessions |-> DeleteSessionRows(db.sessions, session_ids),
              attempts |-> DeleteAttempts(db.attempts, session_ids)]
    /\ Returned("delete_sessions",
                [deleted_count |-> Cardinality(DOMAIN db.sessions \cap session_ids)])
    /\ UNCHANGED <<cubies, start, moves, cubes, figures>>

\* reset_training_database
ResetDatabase ==
    /\ op' = "reset_database"
    /\ n' = Cardinality(DOMAIN db.sessions)
    /\ db' = [sessions |-> <<>>, attempts |-> <<>>]
    /\ Returned("reset_database", [message |-> "Training database reset successfully"])
    /\ UNCHANGED <<cubies, start, moves, cubes, figures>>

NextTraining ==
    \/ \E selected_plls \in Selections : StartSession(selected_plls)
    \/ \E session_id \in SessionIds, user_answer \in UserAnswers :
           SubmitAnswer(session_id, <<"T">>, user_answer)
    \/ \E session_id \in SessionIds : EndSession(session_id)
    \/ \E session_ids \in SUBSET SessionIds : DeleteSessions(session_ids)
    \/ ResetDatabase

SpecTraining == InitTraining /\ [][NextTraining]_vars

----------------------------------------------------------------------------
(* SpecSubmit: submit_answer requests for one stored session, served by the *)
(* threads of the pool at once. A request reads the session row when it     *)
(* queries it; its commit inserts the attempt and writes the counters it    *)
(* computed from the row it read. Commits are serialised by the database.   *)

\* The is_correct of submit_training_answer
IsCorrect(user_answer, pll_case) ==
    LowerStr(Strip(user_answer)) = LowerStr(Strip(pll_case))

InitSubmit ==
    /\ db = [sessions |-> (1 :> NewSession(<< <<"T">>, <<"U", "a">> >>)),
             attempts |-> <<>>]
    /\ requests = [r \in RequestIds |-> [handler |-> "submit_answer", pc |-> "idle"]]
    /\ start = <<>>
    /\ moves = <<>>
    /\ cubies = <<>>
    /\ n = 0
    /\ err = "none"
    /\ op = "start_session"
    /\ cubes = <<>>
    /\ figures = <<>>

\* session = db.query(TrainingSession).filter(id == answer.session_id).first()
QuerySession(r, session_id, pll_case, user_answer) ==
    /\ requests[r].pc = "idle"
    /\ session_id \in DOMAIN db.sessions
    /\ requests' = [requests EXCEPT ![r] =
                        [handler |-> "submit_answer", pc |-> "queried",
                         session_id |-> session_id, pll_case |-> pll_case,
                         user_answer |-> user_answer,
                         session |-> db.sessions[session_id]]]
    /\ op' = "submit_answer"
    /\ UNCHANGED <<cubies, start, moves, n, err, cubes, figures, db>>

\* db.add(attempt); session.total_attempts += 1; if is_correct:
\* session.correct_attempts += 1; db.commit(): the attempt is inserted and
\* the changed columns of the session are written with the values computed
\* from the row read
CommitAttempt(r) ==
    /\ requests[r].pc = "queried"
    /\ LET answer == requests[r]
           is_correct == IsCorrect(answer.user_answer, answer.pll_case)
           attempt == [session_id |-> answer.session_id, is_correct |-> is_correct]
       IN  /\ db' = [sessions |->
                        [db.sessions EXCEPT ![answer.session_id] =
                            [@ EXCEPT
                                !.total_attempts = answer.session.total_attempts + 1,
                                !.correct_attempts =
                                    IF is_correct
                                    THEN answer.session.correct_attempts + 1
                                    ELSE @]],
                     attempts |-> db.attempts @@ (NextId(db.attempts) :> attempt)]
           /\ requests' = [requests EXCEPT ![r].pc = "committed"]
    /\ op' = "submit_answer"
    /\ UNCHANGED <<cubies, start, moves, n, err, cubes, figures>>

\* The next question when the answer was correct, and the TrainingResult
Respond(r) ==
    /\ requests[r].pc = "committed"
    /\ LET answer == requests[r]
       IN  IF IsCorrect(answer.user_answer, answer.pll_case)
           THEN \E next_question \in
                    {g.returned :
                        g \in generate_training_question(answer.session.selected_plls)} :
                  requests' = [requests EXCEPT ![r] =
                      [handler |-> "submit_answer",
                       pc |-> IF IsError(next_question) THEN "raised" ELSE "done",
                       returned |->
                           IF IsError(next_question) THEN next_question
                           ELSE [is_correct |-> TRUE,
                                 correct_answer |-> answer.pll_case,
                                 next_question |-> next_question]]]
           ELSE requests' = [requests EXCEPT ![r] =
                    [handler |-> "submit_answer", pc |-> "done",
                     returned |-> [is_correct |-> FALSE,
                                   correct_answer |-> answer.pll_case]]]
    /\ op' = "submit_answer"
    /\ UNCHANGED <<cubies, start, moves, n, err, cubes, figures, db>>

NextSubmit ==
    \/ \E r \in RequestIds, user_answer \in UserAnswers :
           QuerySession(r, 1, <<"T">>, user_answer)
    \/ \E r \in RequestIds : CommitAttempt(r)
    \/ \E r \in RequestIds : Respond(r)

SpecSubmit == InitSubmit /\ [][NextSubmit]_vars

\* The stored correct attempts of a session
CorrectAttemptsOf(session_id) ==
    {a \in DOMAIN db.attempts :
        db.attempts[a].session_id = session_id /\ db.attempts[a].is_correct}

\* C24: under any interleaving of concurrent submit_answer requests for one
\* session, once every request has completed the session's total_attempts
\* is the number of attempts recorded for it and its correct_attempts the
\* number of recorded correct attempts
NoLostIncrement ==
    (\A r \in RequestIds : requests[r].pc \in {"done", "raised"}) =>
        \A id \in DOMAIN db.sessions :
            /\ db.sessions[id].total_attempts =
                   Cardinality({a \in DOMAIN db.attempts :
                                   db.attempts[a].session_id = id})
            /\ db.sessions[id].correct_attempts = Cardinality(CorrectAttemptsOf(id))

----------------------------------------------------------------------------
(* SpecPlot: get_plot requests served by the threads of the pool at once,   *)
(* plot_to_base64 taken statement by statement. figures is the registry of  *)
(* matplotlib.pyplot: the open figures in the order they were made active,  *)
(* the current figure last. A figure is its number and what is drawn on it. *)

\* plt.figure(): a new empty figure, numbered after the largest open number,
\* registered and made the current figure
PltFigure(figs) ==
    Append(figs,
           [num |-> IF figs = <<>> THEN 1
                    ELSE (CHOOSE i \in {figs[k].num : k \in 1..Len(figs)} :
                             \A k \in 1..Len(figs) : figs[k].num <= i) + 1,
            drawn |-> <<>>])

\* plt.gcf(): the current figure, a new one when none is open
PltGcf(figs) ==
    IF figs = <<>> THEN PltFigure(figs)[1] ELSE figs[Len(figs)]

\* plt.close(fig): the figure leaves the registry
PltClose(figs, num) == SelectSeq(figs, LAMBDA f : f.num # num)

InitPlot ==
    /\ figures = <<>>
    /\ requests = [r \in RequestIds |-> [handler |-> "get_plot", pc |-> "idle"]]
    /\ db = <<>>
    /\ start = <<>>
    /\ moves = <<>>
    /\ cubies = <<>>
    /\ n = 0
    /\ err = "none"
    /\ op = "app"
    /\ cubes = <<>>

\* get_plot up to the call of plot_to_base64: cube = Cube();
\* cube.rotate(move.moves)
PlotRequest(r, posted) ==
    /\ requests[r].pc = "idle"
    /\ LET cube == CubeRotate(create_solved_cube, posted)
       IN  requests' = [requests EXCEPT ![r] =
               IF cube.err # "none"
               THEN [handler |-> "get_plot", pc |-> "raised",
                     returned |-> Raise(cube.err)]
               ELSE [handler |-> "get_plot", pc |-> "cube", cubies |-> cube.cubies]]
    /\ op' = "get_plot"
    /\ UNCHANGED <<cubies, start, moves, n, err, cubes, figures, db>>

\* fig = plt.figure(figsize=(6, 6))
Figure(r) ==
    /\ requests[r].pc = "cube"
    /\ figures' = PltFigure(figures)
    /\ requests' = [requests EXCEPT ![r] =
           [requests[r] EXCEPT !.pc = "figure"] @@ [fig |-> figures'[Len(figures')].num]]
    /\ op' = "plot_to_base64"
    /\ UNCHANGED <<cubies, start, moves, n, err, cubes, db>>

\* ax = fig.add_subplot(...); self.plot(ax=ax, ...): the pieces of the
\* cube drawn on the figure of this call
Draw(r) ==
    /\ requests[r].pc = "figure"
    /\ figures' = [k \in 1..Len(figures) |->
                      IF figures[k].num = requests[r].fig
                      THEN [figures[k] EXCEPT !.drawn = requests[r].cubies]
                      ELSE figures[k]]
    /\ requests' = [requests EXCEPT ![r].pc = "drawn"]
    /\ op' = "plot_to_base64"
    /\ UNCHANGED <<cubies, start, moves, n, err, cubes, db>>

\* plt.savefig(img_buffer, ...): the current figure of pyplot written to
\* the buffer of this call
Savefig(r) ==
    /\ requests[r].pc = "drawn"
    /\ figures' = IF figures = <<>> THEN PltFigure(figures) ELSE figures
    /\ requests' = [requests EXCEPT ![r] =
           [requests[r] EXCEPT !.pc = "saved"] @@
               [img_buffer |-> PltGcf(figures).drawn, saved |-> PltGcf(figures).num]]
    /\ op' = "plot_to_base64"
    /\ UNCHANGED <<cubies, start, moves, n, err, cubes, db>>

\* plt.close(fig); return img_str
CloseFigure(r) ==
    /\ requests[r].pc = "saved"
    /\ figures' = PltClose(figures, requests[r].fig)
    /\ requests' = [requests EXCEPT ![r] =
           [requests[r] EXCEPT !.pc = "done"] @@ [returned |-> requests[r].img_buffer]]
    /\ op' = "plot_to_base64"
    /\ UNCHANGED <<cubies, start, moves, n, err, cubes, db>>

NextPlot ==
    \/ \E r \in RequestIds, posted \in PlotMoves : PlotRequest(r, posted)
    \/ \E r \in RequestIds : Figure(r)
    \/ \E r \in RequestIds : Draw(r)
    \/ \E r \in RequestIds : Savefig(r)
    \/ \E r \in RequestIds : CloseFigure(r)

SpecPlot == InitPlot /\ [][NextPlot]_vars

\* C25: when plot_to_base64 runs in several requests at once, every call
\* saves the figure it created and returns the image of its own cube, and
\* the figure of a call stays open until that call closes it
OwnFigureSaved ==
    \A r \in RequestIds :
        /\ requests[r].pc \in {"saved", "done"} =>
               requests[r].saved = requests[r].fig
        /\ requests[r].pc = "done" => requests[r].returned = requests[r].cubies
        /\ requests[r].pc \in {"figure", "drawn", "saved"} =>
               \E k \in 1..Len(figures) : figures[k].num = requests[r].fig

----------------------------------------------------------------------------
(* The tables after requests served one at a time *)

\* The stored attempts of a session
AttemptsOf(session_id) ==
    {a \in DOMAIN db.attempts : db.attempts[a].session_id = session_id}

\* C26: after any sequence of start_session, submit_answer, end_session,
\* delete_sessions and reset_database served one at a time, every stored
\* session has 0 <= correct_attempts <= total_attempts, its total_attempts is
\* the number of stored attempts with its id, and every stored attempt refers
\* to a stored session
CountersConsistent ==
    /\ \A id \in DOMAIN db.sessions :
           /\ 0 <= db.sessions[id].correct_attempts
           /\ db.sessions[id].correct_attempts <= db.sessions[id].total_attempts
           /\ db.sessions[id].total_attempts = Cardinality(AttemptsOf(id))
    /\ \A a \in DOMAIN db.attempts :
           db.attempts[a].session_id \in DOMAIN db.sessions

\* Two sessions with one answer each, then the first session deleted
CountersConsistentWitness ==
    /\ op = "delete_sessions"
    /\ n = 2
    /\ DOMAIN db.sessions = {2}
    /\ db.sessions[2].total_attempts = 1
    /\ db.sessions[2].correct_attempts = 1
    /\ DOMAIN db.attempts = {2}

\* C27: when start_session reports an error no new session is stored, and
\* a session is stored only when the call returns a session id with its
\* first question
StartSessionAllOrNothing ==
    op = "start_session" =>
        IF err # "none"
        THEN Cardinality(DOMAIN db.sessions) = n
        ELSE /\ Cardinality(DOMAIN db.sessions) = n + 1
             /\ {"session_id", "question"} \subseteq DOMAIN requests[1].returned

\* A question with every field of TrainingQuestion, its full_algorithm the
\* moves that were applied to the solved cube to draw its plot
Complete(question) ==
    /\ TrainingQuestionFields \subseteq DOMAIN question
    /\ \E g \in GeneratedQuestions :
           /\ g.pll_case = question.pll_case
           /\ g.cubies = question.plot
           /\ g.final_algorithm = question.full_algorithm

\* C28: every call of generate_training_question produces a complete
\* TrainingQuestion: a handler that generated a question returns it with
\* pll_case, plot, available_answers and full_algorithm
QuestionComplete ==
    \A r \in 1..Len(requests) :
        LET returned == requests[r].returned
        IN  /\ ~(IsError(returned) /\ returned.error = "ValidationError")
            /\ "question" \in DOMAIN returned => Complete(returned.question)
            /\ "next_question" \in DOMAIN returned => Complete(returned.next_question)

====
